---- MODULE Spec2Model ----
(***************************************************************************)
(* Todo API (src/main.py): registration, login, JWT identity resolution    *)
(* and the per-user todo operations over the users and todos tables.       *)
(*                                                                         *)
(* Conventions.  A Python str is a sequence of one-character strings; a    *)
(* todo title/description is an opaque string.  Optional[X] is <<>> for    *)
(* None and <<x>> for a value.  A uuid4() value is the next value of a     *)
(* counter (fresh by construction).  Time is counted in ticks,             *)
(* TicksPerSecond of them to a second.                                     *)
(***************************************************************************)
EXTENDS Integers, Sequences, FiniteSets, TLC

VARIABLES
    users,        \* rows of table users
    todos,        \* rows of table todos
    nextUserId,   \* uuid4() values drawn so far for users, plus one
    nextTodoId,   \* uuid4() values drawn so far for todos, plus one
    now,          \* the clock, in ticks
    issued,       \* history: every token login has returned, with its issue time
    inflight,     \* register requests suspended at an await
    request,      \* the request answered at this instant (none once time has passed)
    response,     \* the response it got
    client_requests,  \* RateLimitMiddleware.client_requests: client ip -> request times
    reached       \* history: the requests passed on to the application, in order

vars == <<users, todos, nextUserId, nextTodoId, now, issued, inflight, request, response,
          client_requests, reached>>

----------------------------------------------------------------------------
(* Optional values and strings *)

None == <<>>
Some(x) == <<x>>
IsNone(o) == o = <<>>
TheValue(o) == o[1]

LowerCase == {"a","b","c","d","e","f","g","h","i","j","k","l","m",
              "n","o","p","q","r","s","t","u","v","w","x","y","z"}
UpperCase == {"A","B","C","D","E","F","G","H","I","J","K","L","M",
              "N","O","P","Q","R","S","T","U","V","W","X","Y","Z"}
AsciiLetters == LowerCase \cup UpperCase
AsciiDigits == {"0","1","2","3","4","5","6","7","8","9"}
\* a decimal digit outside ASCII (ARABIC-INDIC DIGIT THREE), one character
UnicodeDigits == {"U+0663"}
\* a letter outside ASCII (LATIN SMALL LETTER E WITH ACUTE), one character
UnicodeLetters == {"U+00E9"}
NewLine == "\n"

\* re: \d on a str pattern matches every Unicode decimal digit
ReDigit(c) == c \in AsciiDigits \cup UnicodeDigits
\* re: [a-zA-Z]
ReAlpha(c) == c \in AsciiLetters
\* re: [a-zA-Z0-9_]
ReWord(c) == c \in AsciiLetters \cup AsciiDigits \cup {"_"}
\* re: [a-zA-Z0-9._%+-]
ReEmailLocal(c) == c \in AsciiLetters \cup AsciiDigits \cup {".", "_", "%", "+", "-"}
\* re: [a-zA-Z0-9.-]
ReEmailDomain(c) == c \in AsciiLetters \cup AsciiDigits \cup {".", "-"}

\* re: the positions at which $ matches in s (0 .. Len(s) chars consumed):
\* at the end, and just before a newline that ends the string
ReDollar(s) == {Len(s)} \cup (IF Len(s) > 0 /\ s[Len(s)] = NewLine THEN {Len(s) - 1} ELSE {})

\* re.search(r"\d", s)
ReSearchDigit(s) == \E i \in 1..Len(s) : ReDigit(s[i])
\* re.search(r"[a-zA-Z]", s)
ReSearchAlpha(s) == \E i \in 1..Len(s) : ReAlpha(s[i])
\* re.match(r'^[a-zA-Z0-9_]+$', s)
ReMatchUsername(s) ==
    \E e \in ReDollar(s) : e >= 1 /\ \A i \in 1..e : ReWord(s[i])
\* re.match(r'^[a-zA-Z0-9._%+-]+@[a-zA-Z0-9.-]+\.[a-zA-Z]{2,}$', s)
ReMatchEmail(s) ==
    \E e \in ReDollar(s) : \E at \in 2..e : \E dot \in (at + 2)..e :
        /\ s[at] = "@"
        /\ s[dot] = "."
        /\ \A i \in 1..(at - 1) : ReEmailLocal(s[i])
        /\ \A i \in (at + 1)..(dot - 1) : ReEmailDomain(s[i])
        /\ e - dot >= 2
        /\ \A i \in (dot + 1)..e : ReAlpha(s[i])

----------------------------------------------------------------------------
(* Settings (src/config.py) *)

min_password_length == 8
access_token_expire_minutes == 30
secret_key == "fallback-secret-key-change-in-production"
algorithm == "HS256"

----------------------------------------------------------------------------
(* Exceptions and responses *)

NoHeaders == "none"
BearerHeader == "WWW-Authenticate: Bearer"

\* fastapi.HTTPException(status_code, detail, headers), and the response
\* FastAPI's default handler makes of it: that status, {"detail": detail}
HTTPException(status_code, detail, headers) ==
    [status_code |-> status_code, detail |-> detail, headers |-> headers]

\* a response of a handler that returned normally
Returned(status_code, body) == [status_code |-> status_code, body |-> body]

\* an exception no handler of the application catches: Starlette's
\* ServerErrorMiddleware answers 500 "Internal Server Error"
Unhandled(exc) == [status_code |-> 500, detail |-> "Internal Server Error",
                   headers |-> NoHeaders, unhandled |-> exc]

IsError(resp) == "detail" \in DOMAIN resp

----------------------------------------------------------------------------
(* Input validation *)

validate_password_strength(password) ==
    IF Len(password) < min_password_length
    THEN Some(HTTPException(400, "Password must be at least 8 characters long", NoHeaders))
    ELSE IF ~ReSearchDigit(password)
    THEN Some(HTTPException(400, "Password must contain at least one number", NoHeaders))
    ELSE IF ~ReSearchAlpha(password)
    THEN Some(HTTPException(400, "Password must contain at least one letter", NoHeaders))
    ELSE None

validate_email_format(email) ==
    IF ~ReMatchEmail(email)
    THEN Some(HTTPException(400, "Invalid email format", NoHeaders))
    ELSE None

validate_username(username) ==
    IF Len(username) < 3
    THEN Some(HTTPException(400, "Username must be at least 3 characters long", NoHeaders))
    ELSE IF Len(username) > 50
    THEN Some(HTTPException(400, "Username must be less than 50 characters", NoHeaders))
    ELSE IF ~ReMatchUsername(username)
    THEN Some(HTTPException(400, "Username can only contain letters, numbers, and underscores", NoHeaders))
    ELSE None

----------------------------------------------------------------------------
(* Time *)

\* clock resolution of the model: ticks in one second
TicksPerSecond == 2
SecondsPerMinute == 60

\* datetime.timedelta(minutes=m), in ticks
timedelta_minutes(m) == m * SecondsPerMinute * TicksPerSecond
\* calendar.timegm(dt.utctimetuple()): whole seconds, the fraction dropped
timegm(t) == t \div TicksPerSecond

----------------------------------------------------------------------------
(* Password hashing (passlib bcrypt) *)

\* pwd_context.hash(password): one-way; the salt plays no part in what
\* verify answers and is left out
get_password_hash(password) == [scheme |-> "bcrypt", digest_of |-> password]

verify_password(plain_password, hashed_password) ==
    hashed_password = get_password_hash(plain_password)

----------------------------------------------------------------------------
(* JWT (python-jose), as main.py calls it *)

\* HMAC-SHA256 of the payload under key, idealised as collision free
HmacSign(key, payload) == [key |-> key, payload |-> payload, flipped |-> FALSE]

\* jwt.encode(claims, key, algorithm): a datetime "exp" becomes whole seconds
jwt_encode(claims, key, alg) ==
    LET payload == [sub |-> claims.sub, exp |-> Some(timegm(claims.exp))]
    IN  [kind |-> "jws", alg |-> alg, payload |-> payload, sig |-> HmacSign(key, payload)]

JwtDecodeUnsignedMutant(token, key, algorithms, t) ==
    IF token.kind # "jws" THEN [ok |-> FALSE, error |-> "Not enough segments"]
    ELSE IF ~IsNone(token.payload.exp) /\ TheValue(token.payload.exp) < timegm(t)
    THEN [ok |-> FALSE, error |-> "Signature has expired."]
    ELSE [ok |-> TRUE, payload |-> token.payload]

\* jwt.decode(token, key, algorithms) at time t: the signature first, then exp
jwt_decode(token, key, algorithms, t) ==
    IF token.kind # "jws" THEN [ok |-> FALSE, error |-> "Not enough segments"]
    ELSE IF token.alg \notin algorithms
    THEN [ok |-> FALSE, error |-> "The specified alg value is not allowed"]
    ELSE IF token.sig # HmacSign(key, token.payload)
    THEN [ok |-> FALSE, error |-> "Signature verification failed."]
    ELSE IF ~IsNone(token.payload.exp) /\ TheValue(token.payload.exp) < timegm(t)
    THEN [ok |-> FALSE, error |-> "Signature has expired."]
    ELSE [ok |-> TRUE, payload |-> token.payload]

CreateAccessTokenDefaultExpiryMutant(data, expires_delta, t) ==
    LET expire == t + timedelta_minutes(15)
        to_encode == [sub |-> data.sub, exp |-> expire]
    IN  jwt_encode(to_encode, secret_key, algorithm)

create_access_token(data, expires_delta, t) ==
    LET expire == IF ~IsNone(expires_delta)
                  THEN t + TheValue(expires_delta)
                  ELSE t + timedelta_minutes(15)
        to_encode == [sub |-> data.sub, exp |-> expire]
    IN  jwt_encode(to_encode, secret_key, algorithm)

\* the Authorization header of a request that carries none (or no Bearer one)
NoCredentials == [kind |-> "none"]

----------------------------------------------------------------------------
(* Database functions: todos *)

\* Todo(**dict(row)) of SELECT id, title, description, completed, user_id
TodoOfRow(row) == [id |-> row.id, title |-> row.title, description |-> row.description,
                   completed |-> row.completed, user_id |-> row.user_id]

RECURSIVE Orderings(_)
Orderings(S) ==
    IF S = {} THEN {<<>>}
    ELSE UNION {{<<x>> \o rest : rest \in Orderings(S \ {x})} : x \in S}

\* ORDER BY created_at DESC: every order of the rows that does not put an
\* older row before a newer one (rows of one second come in any order)
OrderByCreatedAtDesc(rows) ==
    {o \in Orderings(rows) :
        \A i \in 1..Len(o) : \A j \in (i + 1)..Len(o) : o[i].created_at >= o[j].created_at}

GetTodosAnyUserMutant(db_todos, user_id) ==
    {[i \in 1..Len(o) |-> TodoOfRow(o[i])] : o \in OrderByCreatedAtDesc(db_todos)}

\* the lists the query may return
get_todos_from_db(db_todos, user_id) ==
    LET rows == {r \in db_todos : r.user_id = user_id}
    IN  {[i \in 1..Len(o) |-> TodoOfRow(o[i])] : o \in OrderByCreatedAtDesc(rows)}

GetTodoAnyUserMutant(db_todos, todo_id, user_id) ==
    LET rows == {r \in db_todos : r.id = todo_id}
    IN  IF rows = {} THEN None ELSE Some(TodoOfRow(CHOOSE r \in rows : TRUE))

get_todo_from_db(db_todos, todo_id, user_id) ==
    LET rows == {r \in db_todos : r.id = todo_id /\ r.user_id = user_id}
    IN  IF rows = {} THEN None ELSE Some(TodoOfRow(CHOOSE r \in rows : TRUE))

\* a variant that stores the row without the caller's id
CreateTodoOwnerlessMutant(db_todos, todo, user_id, new_id, t) ==
    LET new_todo == [id |-> new_id, title |-> todo.title, description |-> todo.description,
                     completed |-> todo.completed, user_id |-> 0]
    IN  [db |-> db_todos \cup {[id |-> new_todo.id, title |-> new_todo.title,
                                description |-> new_todo.description,
                                completed |-> new_todo.completed,
                                user_id |-> new_todo.user_id, created_at |-> timegm(t)]},
         result |-> new_todo]

CreateTodoCountIdMutant(db_todos, todo, user_id, new_id, t) ==
    LET new_todo == [id |-> Cardinality(db_todos) + 1, title |-> todo.title,
                     description |-> todo.description,
                     completed |-> todo.completed, user_id |-> user_id]
    IN  [db |-> db_todos \cup {[id |-> new_todo.id, title |-> new_todo.title,
                                description |-> new_todo.description,
                                completed |-> new_todo.completed,
                                user_id |-> new_todo.user_id, created_at |-> timegm(t)]},
         result |-> new_todo]

\* new_id is the uuid4() drawn; created_at is the column default CURRENT_TIMESTAMP
create_todo_in_db(db_todos, todo, user_id, new_id, t) ==
    LET new_todo == [id |-> new_id, title |-> todo.title, description |-> todo.description,
                     completed |-> todo.completed, user_id |-> user_id]
    IN  [db |-> db_todos \cup {[id |-> new_todo.id, title |-> new_todo.title,
                                description |-> new_todo.description,
                                completed |-> new_todo.completed,
                                user_id |-> new_todo.user_id, created_at |-> timegm(t)]},
         result |-> new_todo]

UpdateTodoAnyUserMutant(db_todos, todo_id, todo_update, user_id) ==
    LET hit == {r \in db_todos : r.id = todo_id}
        db == {IF r \in hit
               THEN [r EXCEPT !.title = todo_update.title,
                              !.description = todo_update.description,
                              !.completed = todo_update.completed]
               ELSE r : r \in db_todos}
    IN  [db |-> db,
         result |-> IF Cardinality(hit) = 0 THEN None
                    ELSE Some([id |-> todo_id, title |-> todo_update.title,
                               description |-> todo_update.description,
                               completed |-> todo_update.completed, user_id |-> user_id])]

UpdateTodoTakeOverMutant(db_todos, todo_id, todo_update, user_id) ==
    LET hit == {r \in db_todos : r.id = todo_id}
        db == {IF r \in hit
               THEN [r EXCEPT !.title = todo_update.title,
                              !.description = todo_update.description,
                              !.completed = todo_update.completed,
                              !.user_id = user_id]
               ELSE r : r \in db_todos}
    IN  [db |-> db,
         result |-> IF Cardinality(hit) = 0 THEN None
                    ELSE Some([id |-> todo_id, title |-> todo_update.title,
                               description |-> todo_update.description,
                               completed |-> todo_update.completed, user_id |-> user_id])]

UpdateTodoKeepsDescriptionMutant(db_todos, todo_id, todo_update, user_id) ==
    LET hit == {r \in db_todos : r.id = todo_id /\ r.user_id = user_id}
        db == {IF r \in hit
               THEN [r EXCEPT !.title = todo_update.title,
                              !.description = IF IsNone(todo_update.description)
                                              THEN r.description
                                              ELSE todo_update.description,
                              !.completed = todo_update.completed]
               ELSE r : r \in db_todos}
        rowcount == Cardinality(hit)
    IN  [db |-> db,
         result |-> IF rowcount = 0 THEN None
                    ELSE Some([id |-> todo_id, title |-> todo_update.title,
                               description |-> todo_update.description,
                               completed |-> todo_update.completed, user_id |-> user_id])]

update_todo_in_db(db_todos, todo_id, todo_update, user_id) ==
    LET hit == {r \in db_todos : r.id = todo_id /\ r.user_id = user_id}
        db == {IF r \in hit
               THEN [r EXCEPT !.title = todo_update.title,
                              !.description = todo_update.description,
                              !.completed = todo_update.completed]
               ELSE r : r \in db_todos}
        rowcount == Cardinality(hit)
    IN  [db |-> db,
         result |-> IF rowcount = 0 THEN None
                    ELSE Some([id |-> todo_id, title |-> todo_update.title,
                               description |-> todo_update.description,
                               completed |-> todo_update.completed, user_id |-> user_id])]

DeleteTodoKeepsRowMutant(db_todos, todo_id, user_id) ==
    LET hit == {r \in db_todos : r.id = todo_id /\ r.user_id = user_id}
        rowcount == Cardinality(hit)
    IN  [db |-> db_todos, result |-> rowcount > 0]

delete_todo_from_db(db_todos, todo_id, user_id) ==
    LET hit == {r \in db_todos : r.id = todo_id /\ r.user_id = user_id}
        rowcount == Cardinality(hit)
    IN  [db |-> db_todos \ hit, result |-> rowcount > 0]

----------------------------------------------------------------------------
(* Database functions: users *)

get_user_by_username(db_users, username) ==
    LET rows == {r \in db_users : r.username = username}
    IN  IF rows = {} THEN None ELSE Some(CHOOSE r \in rows : TRUE)

get_user_by_email(db_users, email) ==
    LET rows == {r \in db_users : r.email = email}
    IN  IF rows = {} THEN None ELSE Some(CHOOSE r \in rows : TRUE)

InsertUserReplacingMutant(db_users, row) ==
    [ok |-> TRUE, db |-> {row}]

InsertUserNoConstraintMutant(db_users, row) ==
    [ok |-> TRUE, db |-> db_users \cup {row}]

\* INSERT INTO users under the table's constraints: id PRIMARY KEY,
\* username UNIQUE, email UNIQUE.  A violation raises sqlite3.IntegrityError
\* and inserts nothing
InsertUser(db_users, row) ==
    IF \E r \in db_users : r.id = row.id \/ r.username = row.username \/ r.email = row.email
    THEN [ok |-> FALSE, db |-> db_users]
    ELSE [ok |-> TRUE, db |-> db_users \cup {row}]

\* create_user_in_db from "Hash the password" on: the part after the two
\* lookups.  new_id is the uuid4() drawn
CreateUserInsert(db_users, user, new_id, t) ==
    LET hashed_password == get_password_hash(user.password)
        new_user == [id |-> new_id, username |-> user.username, email |-> user.email,
                     hashed_password |-> hashed_password, created_at |-> t]
        ins == InsertUser(db_users,
                          [id |-> new_user.id, username |-> new_user.username,
                           email |-> new_user.email,
                           hashed_password |-> new_user.hashed_password,
                           created_at |-> timegm(t)])
    IN  IF ins.ok
        THEN [db |-> ins.db, raised |-> None, result |-> Some(new_user)]
        ELSE [db |-> ins.db, raised |-> Some(Unhandled("sqlite3.IntegrityError")), result |-> None]

UsernameTaken == HTTPException(400, "Username already registered", NoHeaders)
EmailTaken == HTTPException(400, "Email already registered", NoHeaders)

CreateUserNoLookupMutant(db_users, user, new_id, t) ==
    CreateUserInsert(db_users, user, new_id, t)

\* create_user_in_db run without another request in between
create_user_in_db(db_users, user, new_id, t) ==
    IF ~IsNone(get_user_by_username(db_users, user.username))
    THEN [db |-> db_users, raised |-> Some(UsernameTaken), result |-> None]
    ELSE IF ~IsNone(get_user_by_email(db_users, user.email))
    THEN [db |-> db_users, raised |-> Some(EmailTaken), result |-> None]
    ELSE CreateUserInsert(db_users, user, new_id, t)

AuthenticateByEmailMutant(db_users, username, password) ==
    LET user == get_user_by_email(db_users, username)
    IN  IF IsNone(user) THEN None
        ELSE IF ~verify_password(password, TheValue(user).hashed_password) THEN None
        ELSE user

authenticate_user(db_users, username, password) ==
    LET user == get_user_by_username(db_users, username)
    IN  IF IsNone(user) THEN None
        ELSE IF ~verify_password(password, TheValue(user).hashed_password) THEN None
        ELSE user

----------------------------------------------------------------------------
(* The authentication dependency *)

credentials_exception == HTTPException(401, "Could not validate credentials", BearerHeader)

\* security = HTTPBearer(): a request without a Bearer Authorization header
\* is refused before get_current_user runs
HTTPBearer(credentials) ==
    IF credentials.kind = "none"
    THEN Some(HTTPException(403, "Not authenticated", NoHeaders))
    ELSE None

GetCurrentUserTellsMutant(db_users, credentials, t) ==
    IF ~IsNone(HTTPBearer(credentials))
    THEN [ok |-> FALSE, exc |-> TheValue(HTTPBearer(credentials))]
    ELSE LET decoded == jwt_decode(credentials, secret_key, {algorithm}, t)
         IN  IF ~decoded.ok THEN [ok |-> FALSE, exc |-> credentials_exception]
             ELSE IF IsNone(decoded.payload.sub) THEN [ok |-> FALSE, exc |-> credentials_exception]
             ELSE LET user == get_user_by_username(db_users, TheValue(decoded.payload.sub))
                  IN  IF IsNone(user)
                      THEN [ok |-> FALSE, exc |-> HTTPException(404, "User not found", NoHeaders)]
                      ELSE [ok |-> TRUE, user |-> TheValue(user)]

get_current_user(db_users, credentials, t) ==
    IF ~IsNone(HTTPBearer(credentials))
    THEN [ok |-> FALSE, exc |-> TheValue(HTTPBearer(credentials))]
    ELSE LET decoded == jwt_decode(credentials, secret_key, {algorithm}, t)
         IN  IF ~decoded.ok THEN [ok |-> FALSE, exc |-> credentials_exception]
             ELSE IF IsNone(decoded.payload.sub) THEN [ok |-> FALSE, exc |-> credentials_exception]
             ELSE LET user == get_user_by_username(db_users, TheValue(decoded.payload.sub))
                  IN  IF IsNone(user) THEN [ok |-> FALSE, exc |-> credentials_exception]
                      ELSE [ok |-> TRUE, user |-> TheValue(user)]

----------------------------------------------------------------------------
(* Endpoints.  db is the database, [users |-> rows, todos |-> rows]; t is  *)
(* the time of the request.  Each gives the response and the database      *)
(* afterwards.                                                             *)

UserResponseWholeRowMutant(db_user) == db_user

UserResponse(db_user) == [id |-> db_user.id, username |-> db_user.username,
                          email |-> db_user.email, created_at |-> db_user.created_at]

RegisterValidationPasswordFirstMutant(user) ==
    IF ~IsNone(validate_password_strength(user.password))
    THEN validate_password_strength(user.password)
    ELSE IF ~IsNone(validate_username(user.username)) THEN validate_username(user.username)
    ELSE validate_email_format(user.email)

\* the three checks of register, in its order: the first exception raised
RegisterValidation(user) ==
    IF ~IsNone(validate_username(user.username)) THEN validate_username(user.username)
    ELSE IF ~IsNone(validate_email_format(user.email)) THEN validate_email_format(user.email)
    ELSE validate_password_strength(user.password)

register(db, user, new_id, t) ==
    IF ~IsNone(RegisterValidation(user))
    THEN [db |-> db, response |-> TheValue(RegisterValidation(user))]
    ELSE LET created == create_user_in_db(db.users, user, new_id, t)
         IN  IF ~IsNone(created.raised)
             THEN [db |-> [db EXCEPT !.users = created.db], response |-> TheValue(created.raised)]
             ELSE [db |-> [db EXCEPT !.users = created.db],
                   response |-> Returned(200, UserResponse(TheValue(created.result)))]

LoginTellsMutant(db, user_credentials, t) ==
    LET user == authenticate_user(db.users, user_credentials.username, user_credentials.password)
    IN  IF IsNone(get_user_by_username(db.users, user_credentials.username))
        THEN HTTPException(404, "User not found", NoHeaders)
        ELSE IF IsNone(user)
        THEN HTTPException(401, "Incorrect username or password", BearerHeader)
        ELSE Returned(200, [access_token |->
                                create_access_token([sub |-> Some(TheValue(user).username)],
                                    Some(timedelta_minutes(access_token_expire_minutes)), t),
                            token_type |-> "bearer"])

login(db, user_credentials, t) ==
    LET user == authenticate_user(db.users, user_credentials.username, user_credentials.password)
    IN  IF IsNone(user)
        THEN HTTPException(401, "Incorrect username or password", BearerHeader)
        ELSE LET access_token_expires == timedelta_minutes(access_token_expire_minutes)
                 access_token == create_access_token([sub |-> Some(TheValue(user).username)],
                                                     Some(access_token_expires), t)
             IN  Returned(200, [access_token |-> access_token, token_type |-> "bearer"])

\* TodoCreate(**body): title required, description defaults to None,
\* completed to False, any other field of the body is ignored
TodoCreate(body) ==
    IF "title" \notin DOMAIN body THEN None
    ELSE Some([title |-> body.title,
               description |-> IF "description" \in DOMAIN body THEN body.description ELSE None,
               completed |-> IF "completed" \in DOMAIN body THEN body.completed ELSE FALSE])

\* FastAPI's answer to a body that does not validate
RequestValidationError == [status_code |-> 422, detail |-> "Field required", headers |-> NoHeaders]

TodoNotFound == HTTPException(404, "Todo not found", NoHeaders)

\* the responses get_todos may give (one per order the query may return)
get_todos(db, credentials, t) ==
    LET current_user == get_current_user(db.users, credentials, t)
    IN  IF ~current_user.ok THEN {current_user.exc}
        ELSE {Returned(200, l) : l \in get_todos_from_db(db.todos, current_user.user.id)}

get_todo(db, todo_id, credentials, t) ==
    LET current_user == get_current_user(db.users, credentials, t)
    IN  IF ~current_user.ok THEN current_user.exc
        ELSE LET todo == get_todo_from_db(db.todos, todo_id, current_user.user.id)
             IN  IF IsNone(todo) THEN TodoNotFound ELSE Returned(200, TheValue(todo))

CreateTodoClientOwnerMutant(db, body, credentials, new_id, t) ==
    LET current_user == get_current_user(db.users, credentials, t)
        owner == IF "user_id" \in DOMAIN body THEN body.user_id ELSE current_user.user.id
    IN  IF ~current_user.ok THEN [db |-> db, response |-> current_user.exc]
        ELSE IF IsNone(TodoCreate(body)) THEN [db |-> db, response |-> RequestValidationError]
        ELSE LET created == create_todo_in_db(db.todos, TheValue(TodoCreate(body)), owner, new_id, t)
             IN  [db |-> [db EXCEPT !.todos = created.db],
                  response |-> Returned(201, created.result)]

create_todo(db, body, credentials, new_id, t) ==
    LET current_user == get_current_user(db.users, credentials, t)
    IN  IF ~current_user.ok THEN [db |-> db, response |-> current_user.exc]
        ELSE IF IsNone(TodoCreate(body)) THEN [db |-> db, response |-> RequestValidationError]
        ELSE LET created == create_todo_in_db(db.todos, TheValue(TodoCreate(body)),
                                              current_user.user.id, new_id, t)
             IN  [db |-> [db EXCEPT !.todos = created.db],
                  response |-> Returned(201, created.result)]

update_todo(db, todo_id, body, credentials, t) ==
    LET current_user == get_current_user(db.users, credentials, t)
    IN  IF ~current_user.ok THEN [db |-> db, response |-> current_user.exc]
        ELSE IF IsNone(TodoCreate(body)) THEN [db |-> db, response |-> RequestValidationError]
        ELSE LET updated == update_todo_in_db(db.todos, todo_id, TheValue(TodoCreate(body)),
                                              current_user.user.id)
             IN  IF IsNone(updated.result)
                 THEN [db |-> [db EXCEPT !.todos = updated.db], response |-> TodoNotFound]
                 ELSE [db |-> [db EXCEPT !.todos = updated.db],
                       response |-> Returned(200, TheValue(updated.result))]

DeleteTodoBeforeAuthMutant(db, todo_id, credentials, t) ==
    LET current_user == get_current_user(db.users, credentials, t)
    IN  IF ~current_user.ok
        THEN [db |-> [db EXCEPT !.todos = {r \in db.todos : r.id # todo_id}],
              response |-> current_user.exc]
        ELSE LET deleted == delete_todo_from_db(db.todos, todo_id, current_user.user.id)
             IN  IF ~deleted.result
                 THEN [db |-> [db EXCEPT !.todos = deleted.db], response |-> TodoNotFound]
                 ELSE [db |-> [db EXCEPT !.todos = deleted.db],
                       response |-> Returned(200, [message |-> "Todo deleted successfully"])]

delete_todo(db, todo_id, credentials, t) ==
    LET current_user == get_current_user(db.users, credentials, t)
    IN  IF ~current_user.ok THEN [db |-> db, response |-> current_user.exc]
        ELSE LET deleted == delete_todo_from_db(db.todos, todo_id, current_user.user.id)
             IN  IF ~deleted.result
                 THEN [db |-> [db EXCEPT !.todos = deleted.db], response |-> TodoNotFound]
                 ELSE [db |-> [db EXCEPT !.todos = deleted.db],
                       response |-> Returned(200, [message |-> "Todo deleted successfully"])]

----------------------------------------------------------------------------
(* Bounds and inputs *)

TokenLifetime == timedelta_minutes(access_token_expire_minutes)

MaxUsers == 2        \* users registered in one run
MaxTodos == 2        \* todos created in one run
MaxTokens == 2       \* tokens issued in one run
MaxInflight == 2     \* register requests suspended at once
MaxSmallTicks == 3   \* single ticks the clock makes after each long wait

alice == <<"a","l","i","c","e">>
bob == <<"b","o","b">>
carol == <<"c","a","r","o","l">>
aliceMail == <<"a","@","x",".","i","o">>
bobMail == <<"b","@","x",".","i","o">>
goodPassword == <<"a","b","c","1","2","3","4","5">>
otherPassword == <<"x","y","z","9","8","7","6","5">>
weakPassword == <<"s","h","o","r","t","1">>

UserCreate(username, email, password) ==
    [username |-> username, email |-> email, password |-> password]
UserLogin(username, password) == [username |-> username, password |-> password]

RegisterInputs ==
    { UserCreate(alice, aliceMail, goodPassword),
      UserCreate(bob, bobMail, otherPassword),
      UserCreate(bob, aliceMail, goodPassword),
      UserCreate(carol, bobMail, weakPassword) }

LoginInputs ==
    { UserLogin(alice, goodPassword), UserLogin(bob, otherPassword),
      UserLogin(bob, goodPassword), UserLogin(alice, otherPassword),
      UserLogin(carol, goodPassword) }

\* JSON bodies of POST /todos and PUT /todos/{todo_id}
TodoBodies ==
    { [title |-> "buy milk"],
      [title |-> "walk dog", description |-> Some("today"), completed |-> TRUE, user_id |-> 1],
      [description |-> Some("no title")] }

\* the todo ids a request may name: created, deleted and never created ones
TodoIdInputs == 1..(MaxTodos + 1)

MalformedToken == [kind |-> "malformed"]
\* token with one bit of its signature segment flipped
FlipSignature(token) == [token EXCEPT !.sig.flipped = TRUE]
\* token with the subject of its payload rewritten, the signature kept
WithSubject(token, username) == [token EXCEPT !.payload.sub = Some(username)]
\* a token made by someone who holds key
SignedWith(key, sub, exp) ==
    LET payload == [sub |-> sub, exp |-> exp]
    IN  [kind |-> "jws", alg |-> algorithm, payload |-> payload, sig |-> HmacSign(key, payload)]

IssuedTokens == {i.token : i \in issued}

\* what the clients of the todo endpoints present: nothing, or a token a
\* login returned
ClientCredentials == {NoCredentials} \cup IssuedTokens

\* the secret of someone who is not the server
attacker_key == "attacker-key"
\* an expiry no run reaches
FarFuture == Some(timegm(TokenLifetime * 3))

\* what an attacker presents: garbage, an issued token with its signature
\* or its subject altered, tokens signed with another secret, unsigned ones
AttackerCredentials ==
    {MalformedToken}
        \cup {FlipSignature(tok) : tok \in IssuedTokens}
        \cup ({WithSubject(tok, u) : tok \in IssuedTokens, u \in {alice, bob}} \ IssuedTokens)
        \cup {SignedWith(attacker_key, Some(u), FarFuture) : u \in {alice, bob}}
        \cup {[SignedWith(attacker_key, Some(alice), FarFuture) EXCEPT !.alg = "none"]}

\* tokens only a holder of the server's secret can make: one without a
\* subject, one for a username that is not registered
ForeignCredentials ==
    { SignedWith(secret_key, None, FarFuture), SignedWith(secret_key, Some(carol), FarFuture) }

----------------------------------------------------------------------------
(* State machine *)

DB == [users |-> users, todos |-> todos]

NoRequest == [op |-> "none"]
NoResponse == [status_code |-> 0]

Init ==
    /\ users = {}
    /\ todos = {}
    /\ nextUserId = 1
    /\ nextTodoId = 1
    /\ now = 0
    /\ issued = {}
    /\ inflight = {}
    /\ request = NoRequest
    /\ response = NoResponse
    /\ client_requests = [c \in {} |-> <<>>]
    /\ reached = <<>>

\* POST /register, handled without another request in between
Register(user) ==
    LET r == register(DB, user, nextUserId, now)
    IN  /\ r.db.users = users \/ nextUserId <= MaxUsers
        /\ users' = r.db.users
        /\ nextUserId' = IF r.db.users = users THEN nextUserId ELSE nextUserId + 1
        /\ request' = [op |-> "register", user |-> user]
        /\ response' = r.response
        /\ UNCHANGED <<todos, nextTodoId, now, issued, inflight, client_requests, reached>>

\* a variant of POST /login that re-hashes the stored password of the user
\* it has authenticated
LoginRehashMutant(user_credentials) ==
    LET r == login(DB, user_credentials, now)
        new == IF IsError(r) THEN {}
               ELSE {[token |-> r.body.access_token, at |-> now,
                      username |-> user_credentials.username]}
    IN  /\ new \subseteq issued \/ Cardinality(issued) < MaxTokens
        /\ issued' = issued \cup new
        /\ request' = [op |-> "login", user_credentials |-> user_credentials]
        /\ response' = r
        /\ users' = IF IsError(r) THEN users
                    ELSE {IF u.username = user_credentials.username
                          THEN [u EXCEPT !.hashed_password.scheme = "rehashed"]
                          ELSE u : u \in users}
        /\ UNCHANGED <<todos, nextUserId, nextTodoId, now, inflight, client_requests, reached>>

\* POST /login
Login(user_credentials) ==
    LET r == login(DB, user_credentials, now)
        new == IF IsError(r) THEN {}
               ELSE {[token |-> r.body.access_token, at |-> now,
                      username |-> user_credentials.username]}
    IN  /\ new \subseteq issued \/ Cardinality(issued) < MaxTokens
        /\ issued' = issued \cup new
        /\ request' = [op |-> "login", user_credentials |-> user_credentials]
        /\ response' = r
        /\ UNCHANGED <<users, todos, nextUserId, nextTodoId, now, inflight, client_requests, reached>>

\* GET /todos
GetTodos(credentials) ==
    /\ \E r \in get_todos(DB, credentials, now) : response' = r
    /\ request' = [op |-> "get_todos", credentials |-> credentials]
    /\ UNCHANGED <<users, todos, nextUserId, nextTodoId, now, issued, inflight, client_requests, reached>>

\* GET /todos/{todo_id}
GetTodo(todo_id, credentials) ==
    /\ response' = get_todo(DB, todo_id, credentials, now)
    /\ request' = [op |-> "get_todo", todo_id |-> todo_id, credentials |-> credentials]
    /\ UNCHANGED <<users, todos, nextUserId, nextTodoId, now, issued, inflight, client_requests, reached>>

\* POST /todos
CreateTodo(body, credentials) ==
    LET r == create_todo(DB, body, credentials, nextTodoId, now)
    IN  /\ r.db.todos = todos \/ nextTodoId <= MaxTodos
        /\ todos' = r.db.todos
        /\ nextTodoId' = IF r.db.todos = todos THEN nextTodoId ELSE nextTodoId + 1
        /\ request' = [op |-> "create_todo", body |-> body, credentials |-> credentials]
        /\ response' = r.response
        /\ UNCHANGED <<users, nextUserId, now, issued, inflight, client_requests, reached>>

\* PUT /todos/{todo_id}
UpdateTodo(todo_id, body, credentials) ==
    LET r == update_todo(DB, todo_id, body, credentials, now)
    IN  /\ todos' = r.db.todos
        /\ request' = [op |-> "update_todo", todo_id |-> todo_id, body |-> body,
                       credentials |-> credentials]
        /\ response' = r.response
        /\ UNCHANGED <<users, nextUserId, nextTodoId, now, issued, inflight, client_requests, reached>>

\* DELETE /todos/{todo_id}
DeleteTodo(todo_id, credentials) ==
    LET r == delete_todo(DB, todo_id, credentials, now)
    IN  /\ todos' = r.db.todos
        /\ request' = [op |-> "delete_todo", todo_id |-> todo_id,
                       credentials |-> credentials]
        /\ response' = r.response
        /\ UNCHANGED <<users, nextUserId, nextTodoId, now, issued, inflight, client_requests, reached>>

\* time passes: one tick
Tick ==
    /\ now % TokenLifetime < MaxSmallTicks
    /\ now' = now + 1
    /\ request' = NoRequest
    /\ response' = NoResponse
    /\ UNCHANGED <<users, todos, nextUserId, nextTodoId, issued, inflight, client_requests, reached>>

\* time passes: as long as a token lives (once in a run)
LongWait ==
    /\ now < TokenLifetime
    /\ now' = now + TokenLifetime
    /\ request' = NoRequest
    /\ response' = NoResponse
    /\ UNCHANGED <<users, todos, nextUserId, nextTodoId, issued, inflight, client_requests, reached>>

Next ==
    \/ \E user \in RegisterInputs : Register(user)
    \/ \E user_credentials \in LoginInputs : Login(user_credentials)
    \/ \E credentials \in ClientCredentials : GetTodos(credentials)
    \/ \E todo_id \in TodoIdInputs, credentials \in ClientCredentials : GetTodo(todo_id, credentials)
    \/ \E body \in TodoBodies, credentials \in ClientCredentials : CreateTodo(body, credentials)
    \/ \E todo_id \in TodoIdInputs, body \in TodoBodies, credentials \in ClientCredentials :
           UpdateTodo(todo_id, body, credentials)
    \/ \E todo_id \in TodoIdInputs, credentials \in ClientCredentials : DeleteTodo(todo_id, credentials)

Spec == Init /\ [][Next]_vars

----------------------------------------------------------------------------
(* Concurrent registrations.  register suspends at each await; another     *)
(* request may run between its two lookups and its INSERT.                 *)

RaceInputs ==
    { UserCreate(alice, aliceMail, goodPassword),
      UserCreate(alice, bobMail, otherPassword),
      UserCreate(bob, aliceMail, goodPassword),
      UserCreate(bob, bobMail, weakPassword) }

FreeConn == CHOOSE c \in 1..MaxInflight : \A p \in inflight : p.conn # c

\* register up to the return of get_user_by_username
RegisterBegin(user) ==
    /\ Cardinality(inflight) < MaxInflight
    /\ IF ~IsNone(RegisterValidation(user))
       THEN /\ response' = TheValue(RegisterValidation(user))
            /\ request' = [op |-> "register", user |-> user]
            /\ UNCHANGED inflight
       ELSE IF ~IsNone(get_user_by_username(users, user.username))
       THEN /\ response' = UsernameTaken
            /\ request' = [op |-> "register", user |-> user]
            /\ UNCHANGED inflight
       ELSE /\ inflight' = inflight \cup {[conn |-> FreeConn, user |-> user, pc |-> "email"]}
            /\ UNCHANGED <<request, response>>
    /\ UNCHANGED <<users, todos, nextUserId, nextTodoId, now, issued, client_requests, reached>>

\* ... up to the return of get_user_by_email
RegisterCheckEmail(p) ==
    /\ p.pc = "email"
    /\ IF ~IsNone(get_user_by_email(users, p.user.email))
       THEN /\ response' = EmailTaken
            /\ request' = [op |-> "register", user |-> p.user]
            /\ inflight' = inflight \ {p}
       ELSE /\ inflight' = (inflight \ {p}) \cup {[p EXCEPT !.pc = "insert"]}
            /\ UNCHANGED <<request, response>>
    /\ UNCHANGED <<users, todos, nextUserId, nextTodoId, now, issued, client_requests, reached>>

\* ... the INSERT and the response
RegisterInsert(p) ==
    LET created == CreateUserInsert(users, p.user, nextUserId, now)
    IN  /\ p.pc = "insert"
        /\ nextUserId <= MaxUsers + MaxInflight
        /\ users' = created.db
        /\ nextUserId' = nextUserId + 1
        /\ response' = IF ~IsNone(created.raised) THEN TheValue(created.raised)
                       ELSE Returned(200, UserResponse(TheValue(created.result)))
        /\ request' = [op |-> "register", user |-> p.user]
        /\ inflight' = inflight \ {p}
        /\ UNCHANGED <<todos, nextTodoId, now, issued, client_requests, reached>>

NextRace ==
    \/ \E user \in RaceInputs : RegisterBegin(user)
    \/ \E p \in inflight : RegisterCheckEmail(p)
    \/ \E p \in inflight : RegisterInsert(p)

SpecRace == Init /\ [][NextRace]_vars

----------------------------------------------------------------------------
(* Tokens over time *)

TokenRegisterInputs ==
    { UserCreate(alice, aliceMail, goodPassword), UserCreate(bob, bobMail, otherPassword) }

TokenLoginInputs ==
    { UserLogin(alice, goodPassword), UserLogin(bob, otherPassword), UserLogin(alice, otherPassword) }

NextToken ==
    \/ \E user \in TokenRegisterInputs : Register(user)
    \/ \E user_credentials \in TokenLoginInputs : Login(user_credentials)
    \/ \E credentials \in ClientCredentials \cup AttackerCredentials \cup ForeignCredentials :
           GetTodos(credentials)
    \/ Tick
    \/ LongWait

SpecToken == Init /\ [][NextToken]_vars

----------------------------------------------------------------------------
(* Who a request comes from, told from the history of logins *)

\* the user a login returned this token to
HolderOf(token) ==
    LET i == CHOOSE i \in issued : i.token = token
    IN  CHOOSE u \in users : u.username = i.username

\* the request in hand presents a token that a login returned
FromHolder == "credentials" \in DOMAIN request /\ request.credentials \in IssuedTokens

\* the row the request in hand names, if it is there
TargetRows == {r \in todos : r.id = request.todo_id}

WithoutTodo(db, todo_id) == [db EXCEPT !.todos = {r \in db.todos : r.id # todo_id}]

----------------------------------------------------------------------------
(* Claims *)

\* C1: a list answered to caller A holds exactly the todos whose owner is
\* A, each once: no todo of another user, and every undeleted todo of A.
C1_ListIsCallersTodos ==
    (request.op = "get_todos" /\ ~IsError(response)) =>
        /\ FromHolder
        /\ LET mine == {TodoOfRow(r) : r \in {r \in todos : r.user_id = HolderOf(request.credentials).id}}
           IN  /\ {response.body[k] : k \in 1..Len(response.body)} = mine
               /\ Len(response.body) = Cardinality(mine)

\* C1 witness: A lists and gets a todo while another user's todo exists.
C1_Witness ==
    /\ request.op = "get_todos"
    /\ ~IsError(response)
    /\ Len(response.body) >= 1
    /\ \E r \in todos : r.user_id # HolderOf(request.credentials).id

\* C2: for caller A and a todo T of another user, get, update and delete
\* answer exactly what they answer when no todo with id T exists.
C2_ForeignLikeAbsent ==
    /\ \A token \in IssuedTokens : \A r \in todos :
          r.user_id # HolderOf(token).id =>
              /\ get_todo(DB, r.id, token, now) = get_todo(WithoutTodo(DB, r.id), r.id, token, now)
              /\ delete_todo(DB, r.id, token, now).response
                    = delete_todo(WithoutTodo(DB, r.id), r.id, token, now).response
              /\ \A body \in TodoBodies :
                    update_todo(DB, r.id, body, token, now).response
                        = update_todo(WithoutTodo(DB, r.id), r.id, body, token, now).response
    /\ (/\ request.op \in {"get_todo", "delete_todo"}
        /\ FromHolder
        /\ \E r \in TargetRows : r.user_id # HolderOf(request.credentials).id)
           => response = TodoNotFound

\* C2 witness: A has asked for B's existing todo and was told it is not found.
C2_Witness ==
    /\ request.op = "get_todo"
    /\ FromHolder
    /\ \E r \in TargetRows : r.user_id # HolderOf(request.credentials).id
    /\ response = TodoNotFound

\* C3: an update or delete by caller A of a todo owned by another user
\* leaves the todos table exactly as it was.
C3_ForeignWriteChangesNothing ==
    [][ (/\ request'.op \in {"update_todo", "delete_todo"}
         /\ request'.credentials \in IssuedTokens
         /\ \E r \in todos : /\ r.id = request'.todo_id
                             /\ r.user_id # HolderOf(request'.credentials).id)
            => todos' = todos ]_vars

\* C3 witness: A has sent a valid update for B's existing todo.
C3_Witness ==
    /\ request.op = "update_todo"
    /\ FromHolder
    /\ ~IsNone(TodoCreate(request.body))
    /\ \E r \in TargetRows : r.user_id # HolderOf(request.credentials).id

\* C4: a created todo is stored with the caller's id as owner, whatever
\* user_id the request body carries.
C4_CreateStampsCaller ==
    (request.op = "create_todo" /\ ~IsError(response)) =>
        /\ FromHolder
        /\ response.body.user_id = HolderOf(request.credentials).id
        /\ \E r \in todos : /\ r.id = response.body.id
                            /\ r.user_id = HolderOf(request.credentials).id

\* C4 witness: a create whose body names another user's id has succeeded.
C4_Witness ==
    /\ request.op = "create_todo"
    /\ ~IsError(response)
    /\ "user_id" \in DOMAIN request.body
    /\ request.body.user_id # HolderOf(request.credentials).id

\* C5: no step changes the owner of a todo that stays, and an update
\* neither removes a todo nor gives one another id.
C5_OwnerNeverChanges ==
    [][ /\ \A r \in todos : \A r2 \in todos' : r.id = r2.id => r2.user_id = r.user_id
        /\ request'.op = "update_todo" => {r.id : r \in todos'} = {r.id : r \in todos} ]_vars

\* C5 witness: an owner has updated a todo.
C5_Witness ==
    /\ request.op = "update_todo"
    /\ ~IsError(response)
    /\ \E r \in TargetRows : r.title = response.body.title

\* C6: no two user rows share a username, none share an email.
C6_UsersUnique ==
    \A u1 \in users : \A u2 \in users :
        u1 # u2 => (u1.username # u2.username /\ u1.email # u2.email /\ u1.id # u2.id)

\* C6 witness: two registrations for one username were both past their
\* lookups, one has inserted and the other's INSERT was refused.
C6_Witness ==
    /\ request.op = "register"
    /\ response.status_code = 500
    /\ \E u \in users : u.username = request.user.username /\ u.email # request.user.email

\* C7: a registration that loses the race for its username or email is
\* answered with the duplicate error of the lookups, a client error.
C7_RaceLoserGetsDuplicateError ==
    (request.op = "register" /\ IsNone(RegisterValidation(request.user)) /\ IsError(response)) =>
        response \in {UsernameTaken, EmailTaken}

\* C8: a token issued at time t0 resolves to its subject at every time
\* before t0 + ttl and is rejected at every time after t0 + ttl.
C8_ValidBeforeExpiredAfter ==
    \A i \in issued :
        (request.op = "get_todos" /\ request.credentials = i.token) =>
            /\ now < i.at + TokenLifetime =>
                  /\ ~IsError(response)
                  /\ get_current_user(users, i.token, now).user.username = i.username
            /\ now > i.at + TokenLifetime => response = credentials_exception

\* C9: a token whose signature is not the server's signature over its
\* payload never yields an identity.
C9_BadSignatureNeverResolves ==
    /\ \A credentials \in AttackerCredentials : ~get_current_user(users, credentials, now).ok
    /\ (/\ request.op = "get_todos"
        /\ request.credentials.kind = "jws"
        /\ request.credentials.sig # HmacSign(secret_key, request.credentials.payload))
           => response = credentials_exception

\* C9 witness: an issued, unexpired token of a registered user was presented
\* with its signature altered, and was refused.
C9_Witness ==
    /\ request.op = "get_todos"
    /\ \E i \in issued : /\ request.credentials = FlipSignature(i.token)
                         /\ get_current_user(users, i.token, now).ok
    /\ response = credentials_exception

\* C10: a login with a registered username and a wrong password gets the
\* very response a login with an unregistered username gets: 401, same message.
C10_LoginFailuresAlike ==
    /\ \A a \in LoginInputs : \A b \in LoginInputs :
          (/\ ~IsNone(get_user_by_username(users, a.username))
           /\ IsError(login(DB, a, now))
           /\ IsNone(get_user_by_username(users, b.username)))
              => login(DB, a, now) = login(DB, b, now)
    /\ (request.op = "login" /\ IsError(response)) =>
          /\ response.status_code = 401
          /\ response = HTTPException(401, "Incorrect username or password", BearerHeader)

\* C10 witness: a login for a registered username with a wrong password has
\* failed while some other offered username is not registered.
C10_Witness ==
    /\ request.op = "login"
    /\ IsError(response)
    /\ ~IsNone(get_user_by_username(users, request.user_credentials.username))
    /\ \E b \in LoginInputs : IsNone(get_user_by_username(users, b.username))

----------------------------------------------------------------------------
(* Registration and login *)

\* the three checks pass and neither the username nor the email is in the table
Registrable(db_users, user) ==
    /\ IsNone(RegisterValidation(user))
    /\ IsNone(get_user_by_username(db_users, user.username))
    /\ IsNone(get_user_by_email(db_users, user.email))

\* authenticate_user answers a user with exactly this username and email
AuthenticatesAs(db_users, user) ==
    LET found == authenticate_user(db_users, user.username, user.password)
    IN  /\ ~IsNone(found)
        /\ TheValue(found).username = user.username
        /\ TheValue(found).email = user.email

\* C11: a register of a valid input whose username and email are free
\* succeeds, and from then on authenticate(username, password) answers a
\* user with exactly the registered username and email.
C11_RegisterThenAuthenticate ==
    [][ /\ (request'.op = "register" /\ Registrable(users, request'.user)) =>
              /\ ~IsError(response')
              /\ response'.body.username = request'.user.username
              /\ response'.body.email = request'.user.email
              /\ AuthenticatesAs(users', request'.user)
        /\ \A user \in RegisterInputs :
              AuthenticatesAs(users, user) => AuthenticatesAs(users', user) ]_vars

\* C11 witness: a second user has just registered, and both users
\* authenticate with what they registered.
C11_Witness ==
    /\ request.op = "register"
    /\ ~IsError(response)
    /\ AuthenticatesAs(users, request.user)
    /\ \E user \in RegisterInputs : user.username # request.user.username /\ AuthenticatesAs(users, user)

----------------------------------------------------------------------------
(* Identity resolution failures *)

\* every token this model presents
PresentedTokens == IssuedTokens \cup AttackerCredentials \cup ForeignCredentials

\* why the resolution of a presented token fails at time t, by the place in
\* get_current_user that raises: "" when it does not fail
FailureCase(db_users, credentials, t) ==
    LET decoded == jwt_decode(credentials, secret_key, {algorithm}, t)
    IN  IF credentials.kind # "jws" THEN "malformed"
        ELSE IF ~decoded.ok
        THEN (IF decoded.error = "Signature has expired." THEN "expired" ELSE "signature")
        ELSE IF IsNone(decoded.payload.sub) THEN "no subject"
        ELSE IF IsNone(get_user_by_username(db_users, TheValue(decoded.payload.sub)))
        THEN "unknown user"
        ELSE ""

\* C12: whenever a token was presented and identity resolution fails
\* (malformed, bad signature, expired, no subject, subject not registered)
\* the error is the same: same status, same message, same headers.
C12_UniformResolutionError ==
    /\ \A credentials \in PresentedTokens :
          LET current_user == get_current_user(users, credentials, now)
          IN  /\ current_user.ok <=> FailureCase(users, credentials, now) = ""
              /\ ~current_user.ok => current_user.exc = credentials_exception
    /\ (request.op = "get_todos" /\ request.credentials.kind # "none" /\ IsError(response))
          => response = credentials_exception

\* C12 witness: an expired token has just been refused, in a state where
\* each of the five failure cases is presentable.
C12_Witness ==
    /\ request.op = "get_todos"
    /\ request.credentials \in IssuedTokens
    /\ FailureCase(users, request.credentials, now) = "expired"
    /\ response = credentials_exception
    /\ {"malformed", "signature", "expired", "no subject", "unknown user"}
          \subseteq {FailureCase(users, credentials, now) : credentials \in PresentedTokens}

----------------------------------------------------------------------------
(* Todo operations of callers that do not authenticate.  The clock stands; *)
(* an expired token is one the server signed before the run began.         *)

GuardRegisterInputs == { UserCreate(alice, aliceMail, goodPassword) }
GuardLoginInputs == { UserLogin(alice, goodPassword) }

\* tokens of the server whose exp lies before the start of the run
StaleCredentials == { SignedWith(secret_key, Some(alice), Some(0 - 1)) }

GuardCredentials ==
    ClientCredentials
        \cup {MalformedToken}
        \cup {FlipSignature(tok) : tok \in IssuedTokens}
        \cup ForeignCredentials
        \cup StaleCredentials

NextGuard ==
    \/ \E user \in GuardRegisterInputs : Register(user)
    \/ \E user_credentials \in GuardLoginInputs : Login(user_credentials)
    \/ \E credentials \in GuardCredentials : GetTodos(credentials)
    \/ \E todo_id \in TodoIdInputs, credentials \in GuardCredentials : GetTodo(todo_id, credentials)
    \/ \E body \in TodoBodies, credentials \in GuardCredentials : CreateTodo(body, credentials)
    \/ \E todo_id \in TodoIdInputs, body \in TodoBodies, credentials \in GuardCredentials :
           UpdateTodo(todo_id, body, credentials)
    \/ \E todo_id \in TodoIdInputs, credentials \in GuardCredentials : DeleteTodo(todo_id, credentials)

SpecGuard == Init /\ [][NextGuard]_vars

TodoOps == {"get_todos", "get_todo", "create_todo", "update_todo", "delete_todo"}

\* the two errors of the authentication dependency
AuthenticationErrors == {HTTPException(403, "Not authenticated", NoHeaders), credentials_exception}

\* C13: a todo operation that presents no bearer token, or a token that
\* does not resolve, is answered with an authentication error; the todos
\* table is as it was and the response carries no todo data.
C13_UnauthenticatedTouchesNothing ==
    [][ (/\ request'.op \in TodoOps
         /\ ~get_current_user(users, request'.credentials, now).ok) =>
            /\ response' \in AuthenticationErrors
            /\ "body" \notin DOMAIN response'
            /\ todos' = todos
            /\ nextTodoId' = nextTodoId ]_vars

\* C13 witness: a delete naming an existing todo, presented with an
\* expired token of the todo's owner, has been refused and the todo is
\* still there.
C13_Witness ==
    /\ request.op = "delete_todo"
    /\ request.credentials \in StaleCredentials
    /\ response = credentials_exception
    /\ \E r \in todos : /\ r.id = request.todo_id
                         /\ \E u \in users : u.id = r.user_id /\ Some(u.username) = request.credentials.payload.sub

----------------------------------------------------------------------------
(* Registration forms: what register answers to each shape of input *)

shortName == <<"a","b">>
dashName == <<"a","-","b">>
longName50 == [i \in 1..50 |-> "a"]
longName51 == [i \in 1..51 |-> "a"]
newlineName == <<"a","b","c",NewLine>>
invalidMail == <<"a","@","x">>
lettersOnlyPassword ==
    <<"a","l","l","l","e","t","t","e","r","s","n","o","d","i","g","i","t">>
digitsOnlyPassword == <<"1","2","3","4","5","6","7","8">>
unicodeDigitPassword == <<"a","b","c","d","e","f","g","U+0663">>
unicodeLetterPassword == <<"U+00E9","U+00E9","U+00E9","U+00E9","1","2","3","4">>

FormUsernames == {alice, bob, shortName, dashName, longName50, longName51, newlineName}
FormEmails == {aliceMail, bobMail, invalidMail}
FormPasswords == {goodPassword, weakPassword, lettersOnlyPassword, digitsOnlyPassword,
                  unicodeDigitPassword, unicodeLetterPassword}

\* one field varied at a time, and inputs that fail several checks at once
FormInputs ==
    {UserCreate(username, bobMail, goodPassword) : username \in FormUsernames}
        \cup {UserCreate(bob, email, goodPassword) : email \in FormEmails}
        \cup {UserCreate(alice, aliceMail, password) : password \in FormPasswords}
        \cup { UserCreate(shortName, invalidMail, weakPassword),
               UserCreate(alice, invalidMail, weakPassword),
               UserCreate(dashName, aliceMail, digitsOnlyPassword),
               UserCreate(newlineName, aliceMail, weakPassword) }

NextForm == \E user \in FormInputs : Register(user)

SpecForm == Init /\ [][NextForm]_vars

\* the check of register whose error this response reports: "" for none
ReportedCheck(resp) ==
    IF ~IsError(resp) THEN ""
    ELSE IF resp.detail \in {"Username must be at least 3 characters long",
                             "Username must be less than 50 characters",
                             "Username can only contain letters, numbers, and underscores"}
    THEN "username format"
    ELSE IF resp.detail = "Invalid email format" THEN "email format"
    ELSE IF resp.detail \in {"Password must be at least 8 characters long",
                             "Password must contain at least one number",
                             "Password must contain at least one letter"}
    THEN "password strength"
    ELSE IF resp.detail = "Username already registered" THEN "username uniqueness"
    ELSE IF resp.detail = "Email already registered" THEN "email uniqueness"
    ELSE "other"

\* the checks this input fails against this table
FailedChecks(db_users, user) ==
    {c \in {"username format", "email format", "password strength",
            "username uniqueness", "email uniqueness"} :
        \/ c = "username format" /\ ~IsNone(validate_username(user.username))
        \/ c = "email format" /\ ~IsNone(validate_email_format(user.email))
        \/ c = "password strength" /\ ~IsNone(validate_password_strength(user.password))
        \/ c = "username uniqueness" /\ \E u \in db_users : u.username = user.username
        \/ c = "email uniqueness" /\ \E u \in db_users : u.email = user.email}

CheckOrder == <<"username format", "email format", "password strength",
                "username uniqueness", "email uniqueness">>

\* the earliest check of CheckOrder among failed: "" when none failed
FirstOf(failed) ==
    IF failed = {} THEN ""
    ELSE CheckOrder[CHOOSE k \in 1..Len(CheckOrder) :
                        /\ CheckOrder[k] \in failed
                        /\ \A j \in 1..(k - 1) : CheckOrder[j] \notin failed]

\* C14: register reports the earliest failed check in the order username
\* format, email format, password strength, username uniqueness, email
\* uniqueness, and succeeds when no check fails.
C14_FirstFailedCheckReported ==
    [][ request'.op = "register" =>
            ReportedCheck(response') = FirstOf(FailedChecks(users, request'.user)) ]_vars

\* C14 witness: a register with a weak password and a username that is
\* already registered has been answered with the weak password.
C14_Witness ==
    /\ request.op = "register"
    /\ {"password strength", "username uniqueness"} \subseteq FailedChecks(users, request.user)
    /\ ReportedCheck(response) = "password strength"

----------------------------------------------------------------------------
(* Password strength *)

\* a decimal digit, of any script
IsDigit(c) == c \in AsciiDigits \cup UnicodeDigits
\* an alphabetic character, of any script
IsAlphabetic(c) == c \in AsciiLetters \cup UnicodeLetters

\* the rule of the three a password violates first: "" when none
FirstViolatedRule(password) ==
    IF Len(password) < min_password_length THEN "length"
    ELSE IF ~\E i \in 1..Len(password) : IsDigit(password[i]) THEN "digit"
    ELSE IF ~\E i \in 1..Len(password) : IsAlphabetic(password[i]) THEN "letter"
    ELSE ""

\* the rule the answer of validate_password_strength names
ReportedRule(raised) ==
    IF IsNone(raised) THEN ""
    ELSE IF TheValue(raised).detail = "Password must be at least 8 characters long" THEN "length"
    ELSE IF TheValue(raised).detail = "Password must contain at least one number" THEN "digit"
    ELSE IF TheValue(raised).detail = "Password must contain at least one letter" THEN "letter"
    ELSE "other"

\* C15: the password check reports the first violated rule of: at least
\* min_password_length characters, at least one digit, at least one
\* alphabetic character, and accepts a password exactly when it violates
\* none; "short1", "alllettersnodigit" and "12345678" are rejected for
\* length, digit and letter.
C15_FirstViolatedRuleReported ==
    /\ ReportedRule(validate_password_strength(weakPassword)) = "length"
    /\ ReportedRule(validate_password_strength(lettersOnlyPassword)) = "digit"
    /\ ReportedRule(validate_password_strength(digitsOnlyPassword)) = "letter"
    /\ (/\ request.op = "register"
        /\ IsNone(validate_username(request.user.username))
        /\ IsNone(validate_email_format(request.user.email))) =>
           /\ ReportedRule(validate_password_strength(request.user.password))
                 = FirstViolatedRule(request.user.password)
           /\ FirstViolatedRule(request.user.password) # "" =>
                 response = TheValue(validate_password_strength(request.user.password))
           /\ FirstViolatedRule(request.user.password) = "" =>
                 ReportedCheck(response) # "password strength"

----------------------------------------------------------------------------
(* Username format *)

\* 3 to 50 characters, each an ASCII letter, a digit or an underscore
UsernameWellFormed(username) ==
    /\ Len(username) >= 3
    /\ Len(username) <= 50
    /\ \A i \in 1..Len(username) : username[i] \in AsciiLetters \cup AsciiDigits \cup {"_"}

\* C16: register accepts a username exactly when it has 3 to 50 characters,
\* each an ASCII letter, a digit or an underscore; any other username gets
\* a validation error and no users row.
C16_UsernameAcceptedIffWellFormed ==
    /\ request.op = "register" =>
          (ReportedCheck(response) = "username format" <=> ~UsernameWellFormed(request.user.username))
    /\ \A u \in users : UsernameWellFormed(u.username)

----------------------------------------------------------------------------
(* Duplicate registrations *)

UsernameRegistered(db_users, user) == \E u \in db_users : u.username = user.username
EmailRegistered(db_users, user) == \E u \in db_users : u.email = user.email

\* the answer is the duplicate error of this field, a client error, and no
\* users row was added, changed or removed
DuplicateAnswer(field) ==
    /\ IsError(response')
    /\ response'.status_code = 400
    /\ response'.detail = (IF field = "username" THEN "Username already registered"
                           ELSE "Email already registered")
    /\ users' = users

\* C17 as stated: a register whose username is registered gets the
\* duplicate-username error, one whose username is new and whose email is
\* registered gets the duplicate-email error, and the users table is as it was.
C17_DuplicateReported ==
    [][ request'.op = "register" =>
            /\ UsernameRegistered(users, request'.user) => DuplicateAnswer("username")
            /\ (~UsernameRegistered(users, request'.user) /\ EmailRegistered(users, request'.user))
                   => DuplicateAnswer("email") ]_vars

\* C17 amended: the same, for a register whose input passes the username,
\* email and password checks; one that does not gets that check's error.
C17_ValidDuplicateReported ==
    [][ (request'.op = "register" /\ IsNone(RegisterValidation(request'.user))) =>
            /\ UsernameRegistered(users, request'.user) => DuplicateAnswer("username")
            /\ (~UsernameRegistered(users, request'.user) /\ EmailRegistered(users, request'.user))
                   => DuplicateAnswer("email") ]_vars

\* C17 witness: a valid register with a new username and a registered
\* email has been answered with the duplicate-email error.
C17_Witness ==
    /\ request.op = "register"
    /\ IsNone(RegisterValidation(request.user))
    /\ ~UsernameRegistered(users, request.user)
    /\ EmailRegistered(users, request.user)
    /\ response = EmailTaken

----------------------------------------------------------------------------
(* What responses carry *)

TodoFields == {"id", "title", "description", "completed", "user_id"}

----------------------------------------------------------------------------
(* What login issues *)

\* the token's subject is this username and its exp claim is the whole
\* second in which login time + ttl falls (exp is a number of seconds)
IssuedFor(token, username, at) ==
    /\ token.payload.sub = Some(username)
    /\ ~IsNone(token.payload.exp)
    /\ TheValue(token.payload.exp) * TicksPerSecond <= at + TokenLifetime
    /\ at + TokenLifetime < (TheValue(token.payload.exp) + 1) * TicksPerSecond

\* C19: a successful login of user U answers token_type "bearer" and a
\* token whose subject is U's username and whose expiry is the login time
\* plus access_token_expire_minutes; presented before that expiry, the
\* token resolves to U.
C19_LoginIssuesTokenForUser ==
    /\ (request.op = "login" /\ ~IsError(response)) =>
          /\ response.body.token_type = "bearer"
          /\ AuthenticatesAs(users, [username |-> request.user_credentials.username,
                                     password |-> request.user_credentials.password,
                                     email |-> TheValue(get_user_by_username(users,
                                                   request.user_credentials.username)).email])
          /\ IssuedFor(response.body.access_token, request.user_credentials.username, now)
    /\ \A i \in issued :
          /\ IssuedFor(i.token, i.username, i.at)
          /\ now < i.at + TokenLifetime =>
                /\ get_current_user(users, i.token, now).ok
                /\ get_current_user(users, i.token, now).user
                      = TheValue(get_user_by_username(users, i.username))
                /\ (request.op = "get_todos" /\ request.credentials = i.token)
                      => ~IsError(response)

\* C19 witness: a token of a login made in the middle of a second has been
\* presented later, before its expiry, and the request was served.
C19_Witness ==
    /\ request.op = "get_todos"
    /\ ~IsError(response)
    /\ \E i \in issued : /\ request.credentials = i.token
                          /\ i.at % TicksPerSecond # 0
                          /\ i.at < now
                          /\ now < i.at + TokenLifetime

----------------------------------------------------------------------------
(* No revocation *)

\* at time t, against this users table, the token resolves to the user it
\* was issued to
ResolvesToHolder(db_users, i, t) ==
    LET current_user == get_current_user(db_users, i.token, t)
    IN  current_user.ok /\ current_user.user.username = i.username

\* C20: no step (a login of the same or another user, a registration, a
\* todo request, time passing) takes an issued token's validity away before
\* its expiry: it resolves to its user after the step as before, and a
\* request presenting it is served.
C20_NoRevocation ==
    [][ \A i \in issued :
            now' < i.at + TokenLifetime =>
                /\ ResolvesToHolder(users', i, now')
                /\ (request'.op = "get_todos" /\ request'.credentials = i.token)
                      => ~IsError(response') ]_vars

\* C20 witness: the user of a token has since logged in again and got
\* another token, another user has registered, time has passed, and the
\* first token, presented now, is served.
C20_Witness ==
    /\ request.op = "get_todos"
    /\ ~IsError(response)
    /\ Cardinality(users) > 1
    /\ \E i \in issued, j \in issued :
          /\ request.credentials = i.token
          /\ j.username = i.username
          /\ j.at > i.at
          /\ j.token # i.token
          /\ now > j.at

----------------------------------------------------------------------------
(* Startup (src/config.py): validate_settings() runs when main.py is       *)
(* imported; a ValueError there ends the process before the application    *)
(* exists.  Settings strings are sequences of characters.                  *)

UpperSeq == <<"A","B","C","D","E","F","G","H","I","J","K","L","M",
              "N","O","P","Q","R","S","T","U","V","W","X","Y","Z">>
LowerSeq == <<"a","b","c","d","e","f","g","h","i","j","k","l","m",
              "n","o","p","q","r","s","t","u","v","w","x","y","z">>

\* str.lower(), on the characters used here
str_lower(s) ==
    [i \in 1..Len(s) |->
        IF \E k \in 1..Len(UpperSeq) : UpperSeq[k] = s[i]
        THEN LowerSeq[CHOOSE k \in 1..Len(UpperSeq) : UpperSeq[k] = s[i]]
        ELSE s[i]]

production ==
    <<"p","r","o","d","u","c","t","i","o","n">>

development ==
    <<"d","e","v","e","l","o","p","m","e","n","t">>

\* the three secrets validate_secret_key lists
placeholder_env_example ==
    <<"y","o","u","r","-","s","u","p","e","r","-","s","e","c","r","e","t",
      "-","k","e","y","-","c","h","a","n","g","e","-","t","h","i","s","-",
      "i","n","-","p","r","o","d","u","c","t","i","o","n","-","m","i","n",
      "i","m","u","m","-","3","2","-","c","h","a","r","a","c","t","e","r",
      "s">>

placeholder_dev ==
    <<"d","e","v","-","k","e","y","-","c","h","a","n","g","e","-","i","n",
      "-","p","r","o","d","u","c","t","i","o","n","-","a","b","c","1","2",
      "3","d","e","f","4","5","6","g","h","i","7","8","9","j","k","l","0",
      "1","2","m","n","o","3","4","5","p","q","r">>

placeholder_fallback ==
    <<"f","a","l","l","b","a","c","k","-","s","e","c","r","e","t","-","k",
      "e","y","-","c","h","a","n","g","e","-","i","n","-","p","r","o","d",
      "u","c","t","i","o","n">>

ValueError(message) == [exception |-> "ValueError", message |-> message]

IsProductionCaseSensitiveMutant(settings) == settings.environment = production

is_production(settings) == str_lower(settings.environment) = production

is_development(settings) == str_lower(settings.environment) = development

\* None, or the exception raised
validate_secret_key(settings) ==
    IF is_production(settings)
    THEN IF Len(settings.secret_key) < 32
         THEN Some(ValueError("SECRET_KEY must be at least 32 characters in production"))
         ELSE IF settings.secret_key \in
                    {placeholder_env_example, placeholder_dev, placeholder_fallback}
         THEN Some(ValueError("Must change default SECRET_KEY in production"))
         ELSE None
    ELSE None

validate_settings(settings) ==
    IF ~IsNone(validate_secret_key(settings)) THEN validate_secret_key(settings)
    ELSE IF settings.min_password_length < 6
    THEN Some(ValueError("MIN_PASSWORD_LENGTH should be at least 6 characters"))
    ELSE IF settings.access_token_expire_minutes < 1
    THEN Some(ValueError("ACCESS_TOKEN_EXPIRE_MINUTES must be positive"))
    ELSE None

\* what becomes of the process that imports main.py under these settings
ProcessExited(exc) == [started |-> FALSE, traceback |-> exc]
ProcessServing == [started |-> TRUE]

\* environments: production in three spellings, and others
EnvironmentInputs ==
    { production,
      <<"P","r","o","d","u","c","t","i","o","n">>,
      <<"P","R","O","D","U","C","T","I","O","N">>,
      development,
      <<"s","t","a","g","i","n","g">>,
      <<"p","r","o","d">> }

\* secrets: of 31, 32 and 33 characters, the empty one, the three listed
SecretInputs ==
    { [i \in 1..31 |-> "k"], [i \in 1..32 |-> "k"], [i \in 1..33 |-> "k"], <<>>,
      placeholder_env_example, placeholder_dev, placeholder_fallback }

SettingsInputs ==
    [environment : EnvironmentInputs, secret_key : SecretInputs,
     min_password_length : {5, 6, 8}, access_token_expire_minutes : {0, 1, 30}]

\* python main.py / uvicorn main:app: the import of main.py
Startup(settings) ==
    /\ request = NoRequest
    /\ request' = [op |-> "startup", settings |-> settings]
    /\ response' = IF ~IsNone(validate_settings(settings))
                   THEN ProcessExited(TheValue(validate_settings(settings)))
                   ELSE ProcessServing
    /\ UNCHANGED <<users, todos, nextUserId, nextTodoId, now, issued, inflight, client_requests, reached>>

NextStartup == \E settings \in SettingsInputs : Startup(settings)

SpecStartup == Init /\ [][NextStartup]_vars

\* the secret is too short or one of the listed placeholders
WeakSecret(secret) ==
    \/ Len(secret) < 32
    \/ secret \in {placeholder_env_example, placeholder_dev, placeholder_fallback}

SecretKeyErrors ==
    { ValueError("SECRET_KEY must be at least 32 characters in production"),
      ValueError("Must change default SECRET_KEY in production") }

\* C21: in production (in any letter case) a secret shorter than 32
\* characters or equal to a listed placeholder stops the process at
\* startup with a SECRET_KEY error; outside production the same secret
\* raises no SECRET_KEY error.
C21_WeakSecretStopsProduction ==
    request.op = "startup" =>
        LET settings == request.settings
        IN  /\ (str_lower(settings.environment) = production /\ WeakSecret(settings.secret_key)) =>
                  /\ ~response.started
                  /\ response.traceback \in SecretKeyErrors
            /\ str_lower(settings.environment) # production =>
                  /\ IsNone(validate_secret_key(settings))
                  /\ response.started \/ response.traceback \notin SecretKeyErrors
            /\ (str_lower(settings.environment) = production /\ ~WeakSecret(settings.secret_key)) =>
                  response.started \/ response.traceback \notin SecretKeyErrors

\* C21 witness: the process was started with environment "Production"
\* and the 40 character fallback secret, and exited.
C21_Witness ==
    /\ request.op = "startup"
    /\ request.settings.environment # production
    /\ str_lower(request.settings.environment) = production
    /\ request.settings.secret_key = placeholder_fallback
    /\ ~response.started

----------------------------------------------------------------------------
(* Todo ids *)

\* the ids drawn for todos so far: those of every todo that exists or has
\* existed
TodoIdsDrawn == 1..(nextTodoId - 1)

\* C22: a successful create adds exactly one row, whose id is the id of no
\* todo that exists or ever existed, of any user; so two creates of the
\* same title and description make two rows with two ids.
C22_CreateAddsOneFreshRow ==
    [][ /\ \A r \in todos : r.id \in TodoIdsDrawn
        /\ (request'.op = "create_todo" /\ ~IsError(response')) =>
              \E row \in todos' :
                  /\ row \notin todos
                  /\ todos' = todos \cup {row}
                  /\ row.id = response'.body.id
                  /\ row.id \notin TodoIdsDrawn
                  /\ \A r \in todos : r.id # row.id
                  /\ nextTodoId' > row.id ]_vars

\* C22 witness: the same user has created the same title and description
\* twice, and holds two rows that differ in their id only.
C22_Witness ==
    /\ request.op = "create_todo"
    /\ ~IsError(response)
    /\ \E r1 \in todos, r2 \in todos :
          /\ r1.id # r2.id
          /\ r2.id = response.body.id
          /\ [r1 EXCEPT !.id = r2.id] = r2

----------------------------------------------------------------------------
(* Deleted todos *)

TodoIdsPresent(db_todos) == {r.id : r \in db_todos}

\* the ids of the todos that were created and have been deleted
TodoIdsDeleted == TodoIdsDrawn \ TodoIdsPresent(todos)

\* the ids of the todos a response carries
TodoIdsAnswered(op, resp) ==
    IF IsError(resp) THEN {}
    ELSE IF op = "get_todos" THEN {resp.body[k].id : k \in 1..Len(resp.body)}
    ELSE IF op \in {"get_todo", "create_todo", "update_todo"} THEN {resp.body.id}
    ELSE {}

\* C23: a todo its owner has deleted is gone for good: the delete removes
\* the row, the id never comes back, every later get, update or delete
\* naming it by any user is answered NotFound (a second delete included),
\* and no list carries it.
C23_DeletedStaysDeleted ==
    [][ /\ (request'.op = "delete_todo" /\ ~IsError(response')) =>
              request'.todo_id \notin TodoIdsPresent(todos')
        /\ \A id \in TodoIdsDeleted :
              /\ id \notin TodoIdsPresent(todos')
              /\ id \notin TodoIdsAnswered(request'.op, response')
              /\ (/\ request'.op \in {"get_todo", "update_todo", "delete_todo"}
                  /\ request'.todo_id = id
                  /\ get_current_user(users, request'.credentials, now).ok
                  /\ request'.op = "update_todo" => ~IsNone(TodoCreate(request'.body)))
                     => response' = TodoNotFound ]_vars

\* C23 witness: a deleted todo has been deleted a second time by a user who
\* authenticates, and the answer was NotFound.
C23_Witness ==
    /\ request.op = "delete_todo"
    /\ request.todo_id \in TodoIdsDeleted
    /\ FromHolder
    /\ response = TodoNotFound

----------------------------------------------------------------------------
(* Update *)

\* what a body submits for a field it may omit
Submitted(body, field, default) == IF field \in DOMAIN body THEN body[field] ELSE default

\* C24: a successful update replaces title, description and completed of
\* the row by what the body submits (no description: none; no completed:
\* false), leaves its id and owner and every other row as they were,
\* answers the new values, and a get by the owner right after answers the
\* same.
C24_UpdateReplacesFields ==
    [][ (request'.op = "update_todo" /\ ~IsError(response')) =>
            \E old \in todos :
                LET new == [old EXCEPT
                               !.title = request'.body.title,
                               !.description = Submitted(request'.body, "description", None),
                               !.completed = Submitted(request'.body, "completed", FALSE)]
                IN  /\ old.id = request'.todo_id
                    /\ old.user_id = get_current_user(users, request'.credentials, now).user.id
                    /\ todos' = (todos \ {old}) \cup {new}
                    /\ response' = Returned(200, TodoOfRow(new))
                    /\ get_todo([users |-> users', todos |-> todos'], request'.todo_id,
                                request'.credentials, now')
                          = Returned(200, response'.body) ]_vars

\* C24 witness: an update that submits a title only has succeeded, and the
\* row has that title, no description and completed false.
C24_Witness ==
    /\ request.op = "update_todo"
    /\ ~IsError(response)
    /\ DOMAIN request.body = {"title"}
    /\ \E r \in todos : /\ r.id = request.todo_id
                         /\ r.title = request.body.title
                         /\ r.description = None
                         /\ r.completed = FALSE

----------------------------------------------------------------------------
(* Error handlers (src/error_handling.py).  A dict is a function from its  *)
(* keys; request_id is the uuid4() the handler draws.                      *)

EmptyDict == [k \in {} |-> ""]
\* dict truthiness
NonEmpty(d) == DOMAIN d # {}

TodoAPIException(message, status_code, error_code, details) ==
    [message |-> message, status_code |-> status_code, error_code |-> error_code,
     details |-> IF NonEmpty(details) THEN details ELSE EmptyDict]

AuthenticationError(message) ==
    TodoAPIException(message, 401, "AUTHENTICATION_FAILED", EmptyDict)

AuthorizationError(message) ==
    TodoAPIException(message, 403, "ACCESS_DENIED", EmptyDict)

\* ValidationError(message) with no field
ValidationError(message) ==
    TodoAPIException(message, 400, "VALIDATION_ERROR", EmptyDict)

\* NotFoundError(resource, details=details) with no resource_id
NotFoundError(resource, details) ==
    TodoAPIException("Resource not found", 404, "RESOURCE_NOT_FOUND",
                     ("resource" :> resource) @@ details)

ConflictError(message) ==
    TodoAPIException(message, 409, "RESOURCE_CONFLICT", EmptyDict)

DatabaseError(message, details) ==
    TodoAPIException(message, 500, "DATABASE_ERROR", details)

JSONResponse(status_code, content) == [status_code |-> status_code, content |-> content]

create_error_response(error, request_id, include_details) ==
    LET basic == [code |-> error.error_code, message |-> error.message,
                  request_id |-> request_id]
        with_details ==
            IF include_details /\ (error.status_code < 500 \/ include_details)
               /\ NonEmpty(error.details)
            THEN ("details" :> error.details) @@ basic
            ELSE basic
    IN  JSONResponse(error.status_code, [detail |-> error.message, error |-> with_details])

todo_api_exception_handler(exc, request_id) == create_error_response(exc, request_id, TRUE)

http_exception_handler(exc, request_id) ==
    LET todo_exc ==
            IF exc.status_code = 401 THEN AuthenticationError(exc.detail)
            ELSE IF exc.status_code = 403 THEN AuthorizationError(exc.detail)
            ELSE IF exc.status_code = 404
            THEN NotFoundError("Resource", [original_detail |-> exc.detail])
            ELSE IF exc.status_code = 409 THEN ConflictError(exc.detail)
            ELSE IF 400 <= exc.status_code /\ exc.status_code < 500
            THEN ValidationError(exc.detail)
            ELSE TodoAPIException("Internal server error", exc.status_code, "HTTP_ERROR",
                                  [original_detail |-> exc.detail])
    IN  create_error_response(todo_exc, request_id, TRUE)

general_exception_handler(exc, request_id) ==
    JSONResponse(500,
                 [error |-> [code |-> "INTERNAL_ERROR",
                             message |-> "An unexpected error occurred. Please try again later.",
                             request_id |-> request_id]])

\* an exception that is neither an HTTPException nor a TodoAPIException
UnexpectedException(type, text) == [exception |-> type, text |-> text]

\* the handler setup_error_handlers registers for the class of exc
HandlerResponse(exc, request_id) ==
    IF "error_code" \in DOMAIN exc THEN todo_api_exception_handler(exc, request_id)
    ELSE IF "exception" \in DOMAIN exc THEN general_exception_handler(exc, request_id)
    ELSE http_exception_handler(exc, request_id)

MaxRequestIds == 2   \* request ids a handler may draw

\* what a failure may say about the inside of the server
FailureDetails == { "could not connect to server at 10.0.0.5:5432", "todos.db is locked" }

HTTPExceptionInputs ==
    { HTTPException(status_code, detail, NoHeaders) :
          status_code \in 400..599, detail \in FailureDetails }

TodoAPIExceptionInputs ==
    { DatabaseError("Database operation failed", [query |-> detail]) : detail \in FailureDetails }
        \cup { DatabaseError("Database operation failed", EmptyDict),
               NotFoundError("Todo", EmptyDict),
               ValidationError("Invalid email format") }

UnexpectedExceptionInputs ==
    { UnexpectedException("sqlite3.OperationalError", detail) : detail \in FailureDetails }

\* an exception reaches the handlers
HandleException(exc) ==
    /\ \E request_id \in 1..MaxRequestIds :
           response' = HandlerResponse(exc, request_id)
    /\ request' = [op |-> "handle", exc |-> exc]
    /\ UNCHANGED <<users, todos, nextUserId, nextTodoId, now, issued, inflight, client_requests, reached>>

NextHandlers ==
    \/ \E exc \in HTTPExceptionInputs : HandleException(exc)
    \/ \E exc \in TodoAPIExceptionInputs : HandleException(exc)
    \/ \E exc \in UnexpectedExceptionInputs : HandleException(exc)

SpecHandlers == Init /\ [][NextHandlers]_vars

\* the request in hand is an internal failure: status 500 or above, or an
\* unexpected exception
InternalFailure ==
    /\ request.op = "handle"
    /\ \/ "exception" \in DOMAIN request.exc
       \/ request.exc.status_code >= 500

\* what the failure itself said
OriginalDetails(exc) ==
    IF "exception" \in DOMAIN exc THEN {exc.text}
    ELSE IF "error_code" \in DOMAIN exc THEN {exc.details[k] : k \in DOMAIN exc.details}
    ELSE {exc.detail}

\* the strings a caller reads in the body
BodyStrings(content) ==
    (IF "detail" \in DOMAIN content THEN {content.detail} ELSE {})
        \cup {content.error.code, content.error.message}
        \cup (IF "details" \in DOMAIN content.error
              THEN {content.error.details[k] : k \in DOMAIN content.error.details}
              ELSE {})

GenericMessages ==
    { "Internal server error", "Database operation failed",
      "An unexpected error occurred. Please try again later." }

\* C25: the body the handlers answer to an internal failure (status 500 or
\* above, or an unexpected exception) carries a generic message only, and
\* nothing of what the failure itself said.
C25_InternalFailureBodyGeneric ==
    InternalFailure =>
        /\ response.content.error.message \in GenericMessages
        /\ "details" \notin DOMAIN response.content.error
        /\ BodyStrings(response.content) \cap OriginalDetails(request.exc) = {}

\* C30: the response of http_exception_handler has the status code of the
\* HTTPException it handles, for every status code from 400 to 599.
C30_HandlerKeepsStatus ==
    (/\ request.op = "handle"
     /\ request.exc \in HTTPExceptionInputs) =>
        response.status_code = request.exc.status_code

----------------------------------------------------------------------------
(* Rate limiter: middleware.py, and the middleware main.py installs *)

\* the limit the middleware is constructed with (a positive number; the
\* default is 60)
requests_per_minute == 2
\* requests passed on to the application in one run
MaxReached == 3

\* 60 seconds of time.time(), in ticks
RateWindow == 60 * TicksPerSecond

ExemptPaths == {"/health", "/docs", "/openapi.json"}

\* request.client.host, or "unknown" for a request without a client address
ClientIps == {"10.0.0.1", "unknown"}

RateLimitError(message, retry_after) ==
    TodoAPIException(message, 429, "RATE_LIMIT_EXCEEDED",
                     IF retry_after # 0 THEN ("retry_after" :> retry_after) ELSE EmptyDict)

\* a variant whose window also holds the request made exactly 60 seconds ago
RecentRequestsClosedWindowMutant(request_times, current_time) ==
    SelectSeq(request_times, LAMBDA t : current_time - t <= RateWindow)

\* [t for t in request_times if current_time - t < 60]
recent_requests(request_times, current_time) ==
    SelectSeq(request_times, LAMBDA t : current_time - t < RateWindow)

\* RateLimitMiddleware._cleanup_old_entries: the table with every list cut
\* down to the last minute and the clients without a request left removed
cleanup_old_entries(table, current_time) ==
    LET kept == {c \in DOMAIN table : recent_requests(table[c], current_time) # <<>>}
    IN  [c \in kept |-> recent_requests(table[c], current_time)]

\* RateLimitMiddleware.dispatch up to call_next: the table it leaves and the
\* error it raises, if any
dispatch(table, path, client_ip, current_time) ==
    IF path \in ExemptPaths
    THEN [client_requests |-> table, raised |-> None]
    ELSE LET cleaned == cleanup_old_entries(table, current_time)
         IN  IF client_ip \in DOMAIN cleaned
             THEN LET recent == recent_requests(cleaned[client_ip], current_time)
                  IN  IF Len(recent) >= requests_per_minute
                      THEN [client_requests |-> cleaned,
                            raised |-> Some(RateLimitError(
                                "Rate limit exceeded. Please try again later.", 60))]
                      ELSE [client_requests |->
                                [cleaned EXCEPT ![client_ip] = Append(recent, current_time)],
                            raised |-> None]
             ELSE [client_requests |-> cleaned @@ (client_ip :> <<current_time>>),
                   raised |-> None]

\* what the application behind the middleware answers
call_next == [status_code |-> 200]

\* a request to an application wrapped in RateLimitMiddleware alone
Dispatch(client_ip, path) ==
    LET d == dispatch(client_requests, path, client_ip, now)
        counted == d.raised = None /\ path \notin ExemptPaths
    IN  /\ counted => Len(reached) < MaxReached
        /\ client_requests' = d.client_requests
        /\ reached' = IF counted THEN Append(reached, [client |-> client_ip, at |-> now])
                      ELSE reached
        /\ request' = [op |-> "dispatch", client |-> client_ip, path |-> path]
        /\ response' = IF d.raised = None THEN call_next ELSE [raised |-> d.raised[1]]
        /\ UNCHANGED <<users, todos, nextUserId, nextTodoId, now, issued, inflight>>

\* time passes: one tick (at the start, or right after the long wait), or
\* one tick less than a minute
LimiterWaits == {1, RateWindow - 1}

LimiterWait(d) ==
    /\ now + d <= RateWindow
    /\ d = 1 => now % (RateWindow - 1) = 0
    /\ now' = now + d
    /\ request' = NoRequest
    /\ response' = NoResponse
    /\ UNCHANGED <<users, todos, nextUserId, nextTodoId, issued, inflight,
                   client_requests, reached>>

LimiterPaths == {"/login", "/todos"} \cup ExemptPaths

NextLimiter ==
    \/ \E client_ip \in ClientIps, path \in LimiterPaths : Dispatch(client_ip, path)
    \/ \E d \in LimiterWaits : LimiterWait(d)

SpecLimiter == Init /\ [][NextLimiter]_vars

\* the requests of one client passed on to the application in the 60
\* seconds before t
AdmittedBefore(client_ip, t) ==
    Cardinality({i \in 1..Len(reached) :
                    /\ reached[i].client = client_ip
                    /\ t - reached[i].at < RateWindow})

\* the requests of the same client passed on within 60 seconds from the
\* i-th one on
AdmittedInWindowFrom(i) ==
    Cardinality({j \in 1..Len(reached) :
                    /\ reached[j].client = reached[i].client
                    /\ reached[j].at >= reached[i].at
                    /\ reached[j].at - reached[i].at < RateWindow})

NotRecorded ==
    /\ reached' = reached
    /\ \A c \in DOMAIN client_requests' :
           /\ c \in DOMAIN client_requests
           /\ Len(client_requests'[c]) <= Len(client_requests[c])

\* C27: RateLimitMiddleware passes a request of client c at time t on exactly
\* when fewer than requests_per_minute requests of c were passed on in the 60
\* seconds before t, and otherwise raises the rate-limit error and records
\* nothing; so no 60 seconds hold more than requests_per_minute passed-on
\* requests of one client, no stored list is longer than requests_per_minute,
\* and a request to /health, /docs or /openapi.json is always passed on and
\* never counted.
C27_LimiterAdmitsBelowLimit ==
    [][ /\ \A i \in 1..Len(reached') : AdmittedInWindowFrom(i)' <= requests_per_minute
        /\ \A c \in DOMAIN client_requests' :
               Len(client_requests'[c]) <= requests_per_minute
        /\ request'.op = "dispatch" =>
              IF request'.path \in ExemptPaths
              THEN /\ response' = call_next
                   /\ client_requests' = client_requests
                   /\ reached' = reached
              ELSE /\ response' = call_next <=>
                          AdmittedBefore(request'.client, now) < requests_per_minute
                   /\ response' # call_next =>
                          /\ response'.raised.status_code = 429
                          /\ response'.raised.error_code = "RATE_LIMIT_EXCEEDED"
                          /\ NotRecorded
                   /\ response' = call_next =>
                          /\ reached' = Append(reached, [client |-> request'.client, at |-> now])
                          /\ Len(client_requests'[request'.client]) =
                                 AdmittedBefore(request'.client, now) + 1
      ]_vars

\* a client at its limit is turned away just under a minute after its first
\* request
C27_Witness ==
    /\ request.op = "dispatch"
    /\ "raised" \in DOMAIN response
    /\ now >= RateWindow - 1
    /\ AdmittedBefore(request.client, now) = requests_per_minute

----------------------------------------------------------------------------
(* The application of main.py and its middleware *)

\* app.add_middleware is called once, for CORSMiddleware
user_middleware == {"CORSMiddleware"}

AppLoginInputs == { UserLogin(alice, goodPassword), UserLogin(alice, otherPassword) }

\* POST /login sent to the application: through the middleware installed,
\* then the endpoint
AppLogin(client_ip, user_credentials) ==
    LET d == IF "RateLimitMiddleware" \in user_middleware
             THEN dispatch(client_requests, "/login", client_ip, now)
             ELSE [client_requests |-> client_requests, raised |-> None]
        r == login(DB, user_credentials, now)
        passed == d.raised = None
        new == IF passed /\ ~IsError(r)
               THEN {[token |-> r.body.access_token, at |-> now,
                      username |-> user_credentials.username]}
               ELSE {}
    IN  /\ passed => Len(reached) < MaxReached
        /\ new \subseteq issued \/ Cardinality(issued) < MaxTokens
        /\ client_requests' = d.client_requests
        /\ reached' = IF passed THEN Append(reached, [client |-> client_ip, at |-> now])
                      ELSE reached
        /\ issued' = issued \cup new
        /\ request' = [op |-> "login", user_credentials |-> user_credentials,
                       client |-> client_ip]
        /\ response' = IF passed THEN r ELSE [raised |-> d.raised[1]]
        /\ UNCHANGED <<users, todos, nextUserId, nextTodoId, now, inflight>>

NextApp ==
    \/ \E user \in GuardRegisterInputs : Register(user)
    \/ \E client_ip \in ClientIps, user_credentials \in AppLoginInputs :
           AppLogin(client_ip, user_credentials)
    \/ \E d \in LimiterWaits : LimiterWait(d)

SpecApp == Init /\ [][NextApp]_vars

\* the login in hand was answered by the endpoint: the credentials were
\* looked up and the password verified
Authenticated ==
    /\ request.op = "login"
    /\ "raised" \notin DOMAIN response

\* C26: a login of the application is answered by the endpoint only when its
\* client has had fewer than its limit of requests passed on in the last 60
\* seconds: a client that has exceeded the limit is turned away before any
\* credential lookup or password verification.
C26_LoginLimitedBeforeAuthentication ==
    Authenticated =>
        AdmittedBefore(request.client, now) <= requests_per_minute

----------------------------------------------------------------------------
(* Ownership of the rows *)

\* the users a todo row names as its owner
OwnersOf(row) == {u \in users : u.id = row.user_id}

\* C29: in every reachable state each todo row has exactly one owner, and
\* that owner is the id of a user row present in users; no two rows with the
\* same id differ in their owner.
C29_EveryTodoHasRegisteredOwner ==
    \A row \in todos :
        /\ Cardinality(OwnersOf(row)) = 1
        /\ \A other \in todos : other.id = row.id => other.user_id = row.user_id

\* todos of two different owners are stored
C29_Witness ==
    \E row \in todos, other \in todos :
        /\ row.user_id # other.user_id
        /\ OwnersOf(row) # {}
        /\ OwnersOf(other) # {}

----------------------------------------------------------------------------
(* What the reading requests leave alone *)

ReadOnlyOps == {"login", "get_todos", "get_todo"}

StoresUnchanged ==
    /\ users' = users
    /\ todos' = todos

\* C28: a login (successful or failed), a list and a get leave users and
\* todos as they were, and so does any todo request whose identity
\* resolution fails; a login that issues a token writes no row anywhere; a
\* register answered with an error leaves users and todos as they were.
C28_ReadsAndRejectionsChangeNothing ==
    [][ /\ request'.op \in ReadOnlyOps => StoresUnchanged
        /\ (request'.op \in TodoOps /\ response' \in AuthenticationErrors) => StoresUnchanged
        /\ (request'.op = "register" /\ IsError(response')) => StoresUnchanged
      ]_vars

\* a login has just issued a token while users and todos hold rows
C28_Witness ==
    /\ request.op = "login"
    /\ ~IsError(response)
    /\ todos # {}
    /\ Cardinality(users) > 1

====
